---- MODULE Spec2Model ----
(***************************************************************************)
(* EconModel (src/econmodel.py, src/functions.py): a city of people and    *)
(* small businesses.  One call of City.city_cycle is modelled as the       *)
(* sequence of its loop iterations; pc is the position inside the call.    *)
(*                                                                         *)
(* Representation.  Coordinates are integer pairs <<x, y>>.  Radii and     *)
(* scores are exact fractions [num, den] with den > 0, compared by cross   *)
(* multiplication; distances are compared through their squares.  Money    *)
(* held by a business (cash, initial_cash, burnrate) is counted in halves  *)
(* of a currency unit, so that a balance of 0.5 is the integer 1; needs    *)
(* are whole units (an arrival count times an integral unit price).        *)
(***************************************************************************)
EXTENDS Integers, Sequences, FiniteSets, TLC

\* Bounds of the model.
MaxAge == 2     \* city_cycle is called at most MaxAge times
MaxDraw == 3    \* a Poisson arrival count is drawn from 0..MaxDraw
MaxNeed == 4    \* a draw that would take a need above MaxNeed is not taken
MaxTries == 3   \* draws followed inside one pop_density_rand call
MaxPeople == 2  \* largest n_people given to City.__init__

\* Business.deathday / Business.lifespan before death.
None == -1

Rat(n, d) == [num |-> n, den |-> d]
Sq(x) == x * x
RatLess(a, b) == a.num * b.den < b.num * a.den
RatGeq(a, b) == a.num * b.den >= b.num * a.den

Range(s) == {s[i] : i \in DOMAIN s}
Perms(S) == {s \in [1..Cardinality(S) -> S] : \A i, j \in DOMAIN s : i # j => s[i] # s[j]}
Samples(n, k) == {s \in [1..k -> 1..n] : \A i, j \in DOMAIN s : i # j => s[i] # s[j]}

(***************************************************************************)
(* functions.py                                                            *)
(***************************************************************************)
\* distance(loc1, loc2) ** 2
distance2(loc1, loc2) == Sq(loc1[1] - loc2[1]) + Sq(loc1[2] - loc2[2])
\* distance(loc1, loc2) < r
distance_lt(loc1, loc2, r) == r.num > 0 /\ distance2(loc1, loc2) * Sq(r.den) < Sq(r.num)
\* distance(loc1, loc2) > r
distance_gt(loc1, loc2, r) == r.num < 0 \/ distance2(loc1, loc2) * Sq(r.den) > Sq(r.num)

inside(loc1, loc2, radius) ==
  LET dx == loc2[1] - loc1[1]
      dy == loc2[2] - loc1[2]
  IN  IF dx * radius.den > radius.num \/ dx * radius.den < -radius.num THEN FALSE
      ELSE IF dy * radius.den > radius.num \/ dy * radius.den < -radius.num THEN FALSE
      ELSE IF distance_lt(loc1, loc2, radius) THEN TRUE
      ELSE FALSE

(***************************************************************************)
(* Configurations: the city's size, the two type tables read by            *)
(* compile_dtypes / compile_btypes, and the places people were put.        *)
(* floats says whether the table wrote dlambda or dprice as a float;       *)
(* when both are integers, Python 2's / in demand_radius is floor division.*)
(***************************************************************************)
DType(l, p, fl) == [dlambda |-> l, dprice |-> p, floats |-> fl]
BType(c, t, r, b) ==
  [initial_cash |-> c, initial_need_threshold |-> t, initial_need_radius |-> r, burnrate |-> b]

\* Scenario A of the specification: radius 1, food, diner, one person at the origin.
ScenarioA ==
  [size |-> Rat(1, 1),
   dtypes |-> [food |-> DType(1, 1, FALSE)],
   dnames |-> <<"food">>,
   btypes |-> [diner |-> BType(20, 2, 2, 2)],
   spots |-> {<< <<0, 0>> >>}]

\* One location, two demand types and the two business types serving them.
Corner ==
  [size |-> Rat(1, 1),
   dtypes |-> [food |-> DType(2, 1, TRUE), cloth |-> DType(2, 1, TRUE)],
   dnames |-> <<"food", "cloth">>,
   btypes |-> [food |-> BType(1, 2, 2, 2), cloth |-> BType(1, 2, 2, 2)],
   spots |-> {<< <<0, 0>> >>}]

\* One location, one demand type, two people.
Duo ==
  [size |-> Rat(1, 1),
   dtypes |-> [food |-> DType(2, 1, FALSE)],
   dnames |-> <<"food">>,
   btypes |-> [food |-> BType(1, 2, 2, 2)],
   spots |-> {<< <<0, 0>>, <<1, 0>> >>}]

\* Five locations, three of them filled at construction.
Town ==
  [size |-> Rat(6, 5),
   dtypes |-> [food |-> DType(3, 2, FALSE)],
   dnames |-> <<"food">>,
   btypes |-> [food |-> BType(1, 2, 2, 2)],
   spots |-> {<< <<0, 0>> >>, << <<1, 0>> >>}]

Worlds == {ScenarioA, Corner, Duo, Town}

VARIABLES
  world,              \* size, dtypes, btypes (never change after construction)
  border,             \* the order in which btypes.iteritems() enumerates the registry
  people,             \* people[i]: Person.location
  needs,              \* needs[i]: Person.needs
  business_locations, \* City.business_locations: the coordinates, in the order generated
  available,          \* available[j]: BusinessLocation.available of business_locations[j]
  businesses,         \* City.businesses
  failed_businesses,  \* City.failed_businesses
  age,                \* City.age
  pophistory,         \* City.pophistory
  bizhistory,         \* City.bizhistory
  pc,                 \* position inside city_cycle ("idle" between calls)
  pi, ni, li, bi,     \* positions of the loops over people, needs, locations, businesses
  atBilling,          \* history: City.businesses when the billing loop was entered
  burned,             \* history: the Business.burn calls of this cycle, <<id, cash after>>
  ncycles,            \* City.life: the argument of the running call (None: no call)
  icycle,             \* City.life: iterations of its loop started so far
  age0,               \* history: City.age when the running life call was made
  log,                \* history: what this cycle has done so far, [ph, who] per step
  n_people,           \* City.__init__: the argument n_people
  rand_loc,           \* City.pop_density_rand: the local loc (None: no call is running)
  tries               \* history: draws made by the running pop_density_rand call

vars == <<world, border, people, needs, business_locations, available, businesses, failed_businesses, age,
          pophistory, bizhistory, pc, pi, ni, li, bi, atBilling, burned,
          ncycles, icycle, age0, log, n_people, rand_loc, tries>>

lifevars == <<ncycles, icycle, age0>>
placevars == <<n_people, rand_loc, tries>>

(***************************************************************************)
(* City.generate_business_locations                                        *)
(***************************************************************************)
\* int(self.size): truncation towards zero
isize(size) == IF size.num >= 0 THEN size.num \div size.den ELSE -((-size.num) \div size.den)
Grid(n) == [k \in 1..(IF n < 0 THEN 0 ELSE Sq(2 * n + 1)) |->
              <<((k - 1) \div (2 * n + 1)) - n, ((k - 1) % (2 * n + 1)) - n>>]
InCity(xy, size) == inside(xy, <<0, 0>>, size)
generate_business_locations(size) ==
  LET g == Grid(isize(size))
      RECURSIVE keep(_)
      keep(k) == IF k > Len(g) THEN <<>>
                 ELSE (IF InCity(g[k], size) THEN <<g[k]>> ELSE <<>>) \o keep(k + 1)
  IN  keep(1)

(***************************************************************************)
(* Business.__init__ and BusinessType.startup                              *)
(***************************************************************************)
Business(id, j, loc, btname, w, born) ==
  [id |-> id, blocation |-> j, location |-> loc,
   type |-> btname, cash |-> w.btypes[btname].initial_cash,
   birthday |-> born, deathday |-> None, lifespan |-> None]

\* mutant of remove: the business is left in the list
remove_nothing(list, b) == list

\* City.businesses.remove(business): the first element that is this business
remove(list, b) ==
  LET k == CHOOSE i \in DOMAIN list :
             list[i].id = b.id /\ \A h \in 1..(i - 1) : list[h].id # b.id
  IN  [i \in 1..(Len(list) - 1) |-> IF i < k THEN list[i] ELSE list[i + 1]]

(***************************************************************************)
(* Person                                                                  *)
(***************************************************************************)
init_needs(w) == [n \in DOMAIN w.dtypes |-> 0]

\* Person.generate: draw[n] is poisson.rvs(dlambda) for demand type n
generate(pneeds, draw) ==
  [n \in DOMAIN pneeds |-> pneeds[n] + draw[n] * world.dtypes[n].dprice]

\* DemandType.demand_radius: 1. + need_amount / self.dlambda
demand_radius(dt, need_amount) ==
  IF dt.floats THEN Rat(dt.dlambda + need_amount, dt.dlambda)
  ELSE Rat(1 + (need_amount \div dt.dlambda), 1)

\* mutant of near: a business exactly on the radius also counts
near_or_on(b, i, r) == ~distance_gt(b.location, people[i], r)

\* the test of Person.fulfill on one business
near(b, i, r) == distance_lt(b.location, people[i], r)

\* Person.fulfill: pos_biz for one need, as positions in City.businesses
pos_biz(i, need) ==
  LET r == demand_radius(world.dtypes[need], needs[i][need])
  IN  {k \in DOMAIN businesses : near(businesses[k], i, r)}

\* Person.give_biz: payment, in currency units
payment(amount, dt) == amount * dt.dprice

\* mutant of emptied: the need is left as it was
emptied_not(amount) == amount

\* Person.give_biz: the need after the transaction
emptied(amount) == 0

(***************************************************************************)
(* BusinessType.startup_score and the scan of City.city_cycle              *)
(***************************************************************************)
\* p.needs[self.bname] raises KeyError for a person inside the need radius
raises_KeyError(btname, j) ==
  \E i \in DOMAIN people :
    /\ inside(people[i], business_locations[j],
              Rat(world.btypes[btname].initial_need_radius, 1))
    /\ btname \notin DOMAIN needs[i]

startup_score(btname, j) ==
  LET bt == world.btypes[btname]
      RECURSIVE local_demand(_)
      local_demand(i) ==
        IF i > Len(people) THEN 0
        ELSE (IF inside(people[i], business_locations[j], Rat(bt.initial_need_radius, 1))
              THEN needs[i][btname] ELSE 0) + local_demand(i + 1)
  IN  Rat(local_demand(1), bt.initial_need_threshold)

\* if s > best
better(s, best) == RatLess(best, s)

\* mutant of triggers: any positive score starts a business
triggers_any(best) == RatLess(Rat(0, 1), best)

\* if best >= 1
triggers(best) == RatGeq(best, Rat(1, 1))

\* the loop over self.btypes.iteritems(), enumerated in the given order
best_startup(order, j) ==
  LET RECURSIVE scan(_, _, _)
      scan(k, best, best_type) ==
        IF k > Len(order) THEN [best |-> best, best_type |-> best_type]
        ELSE LET s == startup_score(order[k], j)
             IN  IF better(s, best) THEN scan(k + 1, s, order[k])
                 ELSE scan(k + 1, best, best_type)
  IN  scan(1, Rat(0, 1), "None")

\* mutant of vacant: the occupancy flag is not looked at
vacant_always(j) == TRUE

\* if bl.available
vacant(j) == available[j]

(***************************************************************************)
(* Business.burn, Business.die                                             *)
(***************************************************************************)
\* mutant of broke: a deficit of half a unit is let through
broke_below(cash) == cash < -1

\* mutant of die: the lifespan is taken the wrong way round
die_backwards(b) == [b EXCEPT !.deathday = age, !.lifespan = b.birthday - age]

burn_cash(b) == b.cash - world.btypes[b.type].burnrate
\* if self.cash < 0
broke(cash) == cash < 0
die(b) == [b EXCEPT !.deathday = age, !.lifespan = age - b.birthday]

(***************************************************************************)
(* City.popreport, City.bizreport                                          *)
(***************************************************************************)
RECURSIVE SumSeq(_)
SumSeq(s) == IF s = <<>> THEN 0 ELSE Head(s) + SumSeq(Tail(s))

\* mutant of popreport: people whose need is zero are counted too
popreport_everyone ==
  [d \in DOMAIN world.dtypes |->
     [demand_count |-> Cardinality({i \in DOMAIN people : needs[i][d] >= 0}),
      total_demand |-> SumSeq([i \in DOMAIN people |-> needs[i][d]])]]

popreport ==
  [d \in DOMAIN world.dtypes |->
     [demand_count |-> Cardinality({i \in DOMAIN people : needs[i][d] > 0}),
      total_demand |-> SumSeq([i \in DOMAIN people |->
                                 IF needs[i][d] > 0 THEN needs[i][d] ELSE 0])]]

bizreport ==
  [t \in DOMAIN world.btypes |->
     [count |-> Cardinality({k \in DOMAIN businesses : businesses[k].type = t}),
      totalcash |-> SumSeq([k \in DOMAIN businesses |->
                              IF businesses[k].type = t THEN businesses[k].cash ELSE 0])]]

(***************************************************************************)
(* City.__init__                                                           *)
(***************************************************************************)
\* pop_density_rand returns a point whose distance from the origin is not > size
pop_density_rand(loc, size) == ~distance_gt(loc, <<0, 0>>, size)

\* business_populate(ratio = .75): int(nl * ratio) distinct indices, a type for each
business_populate(w, bl, fill, kind) ==
  [i \in DOMAIN fill |-> Business(i, fill[i], bl[fill[i]], kind[i], w, 0)]

Init ==
  /\ world \in Worlds
  /\ border \in Perms(DOMAIN world.btypes)
  /\ age = 0
  /\ people \in world.spots
  /\ \A i \in DOMAIN people : pop_density_rand(people[i], world.size)
  /\ needs = [i \in DOMAIN people |-> init_needs(world)]
  /\ business_locations = generate_business_locations(world.size)
  /\ LET nl == Len(business_locations)
     IN  \E fill \in Samples(nl, (nl * 3) \div 4) :
         \E kind \in [DOMAIN fill -> DOMAIN world.btypes] :
           /\ businesses = business_populate(world, business_locations, fill, kind)
           /\ available = [j \in 1..nl |-> j \notin Range(fill)]
  /\ failed_businesses = <<>>
  /\ pophistory = <<popreport>>
  /\ bizhistory = <<bizreport>>
  /\ pc = "idle"
  /\ pi = 0 /\ ni = 0 /\ li = 0 /\ bi = 0
  /\ atBilling = <<>>
  /\ burned = <<>>
  /\ ncycles = None
  /\ icycle = 0
  /\ age0 = 0
  /\ log = <<>>
  /\ n_people = Len(people)
  /\ rand_loc = None
  /\ tries = 0

(***************************************************************************)
(* City.city_cycle                                                         *)
(***************************************************************************)
\* entering city_cycle: self.age += 1
city_cycle_begin ==
  /\ pc = "idle"
  /\ age < MaxAge
  /\ age' = age + 1
  /\ pc' = "generate"
  /\ pi' = 1
  /\ atBilling' = <<>>
  /\ burned' = <<>>
  /\ log' = <<>>
  /\ UNCHANGED <<placevars, world, border, people, business_locations, needs, available, businesses, failed_businesses,
                 pophistory, bizhistory, ni, li, bi>>

\* city_cycle called directly, no life call running
CityCycle ==
  /\ ncycles = None
  /\ city_cycle_begin
  /\ UNCHANGED lifevars

\* for p in self.people: p.generate()
Generate ==
  /\ pc = "generate"
  /\ pi <= Len(people)
  /\ \E draw \in [DOMAIN world.dtypes -> 0..MaxDraw] :
       /\ \A n \in DOMAIN draw : generate(needs[pi], draw)[n] <= MaxNeed
       /\ needs' = [needs EXCEPT ![pi] = generate(needs[pi], draw)]
  /\ pi' = pi + 1
  /\ log' = Append(log, [ph |-> "generate", who |-> pi])
  /\ UNCHANGED <<placevars, lifevars, world, border, people, business_locations, available, businesses, failed_businesses, age,
                 pophistory, bizhistory, pc, ni, li, bi, atBilling, burned>>

\* mutant of GenerateDone: the loop over people is left after the first person
GenerateDone_early ==
  /\ pc = "generate"
  /\ pi > 1
  /\ pc' = "startup"
  /\ pi' = 0
  /\ li' = 1
  /\ UNCHANGED <<placevars, log, lifevars, world, border, people, business_locations, needs, available, businesses, failed_businesses,
                 age, pophistory, bizhistory, ni, bi, atBilling, burned>>

GenerateDone ==
  /\ pc = "generate"
  /\ pi > Len(people)
  /\ pc' = "startup"
  /\ pi' = 0
  /\ li' = 1
  /\ UNCHANGED <<placevars, log, lifevars, world, border, people, business_locations, needs, available, businesses, failed_businesses,
                 age, pophistory, bizhistory, ni, bi, atBilling, burned>>

\* for bl in self.business_locations: a location that is not available is passed over
StartupOccupied ==
  /\ pc = "startup"
  /\ li <= Len(business_locations)
  /\ ~vacant(li)
  /\ li' = li + 1
  /\ UNCHANGED <<placevars, log, lifevars, world, border, people, business_locations, needs, available, businesses, failed_businesses,
                 age, pophistory, bizhistory, pc, pi, ni, bi, atBilling, burned>>

\* startup_score raises KeyError: the exception leaves city_cycle (and life)
StartupKeyError ==
  /\ pc = "startup"
  /\ li <= Len(business_locations)
  /\ vacant(li)
  /\ \E t \in Range(border) : raises_KeyError(t, li)
  /\ pc' = "KeyError"
  /\ log' = Append(log, [ph |-> "score", who |-> li])
  /\ UNCHANGED <<placevars, lifevars, world, border, people, business_locations, needs, available, businesses, failed_businesses,
                 age, pophistory, bizhistory, pi, ni, li, bi, atBilling, burned>>

\* mutant of StartupScan: the business started is held back and never appended
StartupScan_deferred ==
  /\ pc = "startup"
  /\ li <= Len(business_locations)
  /\ vacant(li)
  /\ ~\E t \in Range(border) : raises_KeyError(t, li)
  /\ li' = li + 1
  /\ log' = Append(log, [ph |-> "score", who |-> li])
  /\ UNCHANGED <<placevars, lifevars, world, border, people, business_locations, needs, available, businesses,
                 failed_businesses, age, pophistory, bizhistory, pc, pi, ni, bi, atBilling, burned>>

\* an available location is scored for every type and the best may start up
StartupScan ==
  /\ pc = "startup"
  /\ li <= Len(business_locations)
  /\ vacant(li)
  /\ ~\E t \in Range(border) : raises_KeyError(t, li)
  /\ LET r == best_startup(border, li)
     IN  IF triggers(r.best)
         THEN /\ businesses' = Append(businesses,
                   Business(Len(businesses) + Len(failed_businesses) + 1,
                            li, business_locations[li], r.best_type, world, age))
              /\ available' = [available EXCEPT ![li] = FALSE]
         ELSE UNCHANGED <<businesses, available>>
  /\ li' = li + 1
  /\ log' = Append(log, [ph |-> "score", who |-> li])
  /\ UNCHANGED <<placevars, lifevars, world, border, people, business_locations, needs, failed_businesses, age, pophistory,
                 bizhistory, pc, pi, ni, bi, atBilling, burned>>

StartupDone ==
  /\ pc = "startup"
  /\ li > Len(business_locations)
  /\ pc' = "fulfill"
  /\ li' = 0
  /\ pi' = 1
  /\ ni' = 1
  /\ UNCHANGED <<placevars, log, lifevars, world, border, people, business_locations, needs, available, businesses, failed_businesses,
                 age, pophistory, bizhistory, bi, atBilling, burned>>

\* for p in self.people: p.fulfill(), one need type of one person per step
Fulfill ==
  /\ pc = "fulfill"
  /\ pi <= Len(people)
  /\ LET need == world.dnames[ni]
         amt == needs[pi][need]
     IN  IF pos_biz(pi, need) # {}
         THEN \E k \in pos_biz(pi, need) :
                /\ businesses' = [businesses EXCEPT
                                    ![k].cash = @ + 2 * payment(amt, world.dtypes[need])]
                /\ needs' = [needs EXCEPT ![pi][need] = emptied(amt)]
         ELSE UNCHANGED <<businesses, needs>>
  /\ IF ni < Len(world.dnames)
     THEN ni' = ni + 1 /\ pi' = pi
     ELSE ni' = 1 /\ pi' = pi + 1
  /\ log' = Append(log, [ph |-> "fulfill", who |-> pi])
  /\ UNCHANGED <<placevars, lifevars, world, border, people, business_locations, available, failed_businesses, age, pophistory,
                 bizhistory, pc, li, bi, atBilling, burned>>

FulfillDone ==
  /\ pc = "fulfill"
  /\ pi > Len(people)
  /\ pc' = "burn"
  /\ pi' = 0
  /\ ni' = 0
  /\ bi' = 1
  /\ atBilling' = businesses
  /\ UNCHANGED <<placevars, log, lifevars, world, border, people, business_locations, needs, available, businesses, failed_businesses,
                 age, pophistory, bizhistory, li, burned>>

\* mutant of Burn: bizfail does not free the location of the dead business
Burn_no_free ==
  /\ pc = "burn"
  /\ bi <= Len(businesses)
  /\ LET b == businesses[bi]
         c == burn_cash(b)
     IN  /\ IF broke(c)
            THEN /\ failed_businesses' = Append(failed_businesses, die([b EXCEPT !.cash = c]))
                 /\ businesses' = remove(businesses, b)
            ELSE /\ businesses' = [businesses EXCEPT ![bi].cash = c]
                 /\ UNCHANGED failed_businesses
         /\ burned' = Append(burned, <<b.id, c>>)
  /\ bi' = bi + 1
  /\ log' = Append(log, [ph |-> "burn", who |-> businesses[bi].id])
  /\ UNCHANGED <<placevars, lifevars, world, border, people, business_locations, needs, available, age,
                 pophistory, bizhistory, pc, pi, ni, li, atBilling>>

\* for b in self.businesses: b.burn(), the list iterator standing at position bi
Burn ==
  /\ pc = "burn"
  /\ bi <= Len(businesses)
  /\ LET b == businesses[bi]
         c == burn_cash(b)
     IN  /\ IF broke(c)
            THEN /\ failed_businesses' = Append(failed_businesses, die([b EXCEPT !.cash = c]))
                 /\ businesses' = remove(businesses, b)
                 /\ available' = [available EXCEPT ![b.blocation] = TRUE]
            ELSE /\ businesses' = [businesses EXCEPT ![bi].cash = c]
                 /\ UNCHANGED <<failed_businesses, available>>
         /\ burned' = Append(burned, <<b.id, c>>)
  /\ bi' = bi + 1
  /\ log' = Append(log, [ph |-> "burn", who |-> businesses[bi].id])
  /\ UNCHANGED <<placevars, lifevars, world, border, people, business_locations, needs, age, pophistory, bizhistory, pc, pi, ni,
                 li, atBilling>>

BurnDone ==
  /\ pc = "burn"
  /\ bi > Len(businesses)
  /\ pc' = "snapshot"
  /\ bi' = 0
  /\ UNCHANGED <<placevars, log, lifevars, world, border, people, business_locations, needs, available, businesses, failed_businesses,
                 age, pophistory, bizhistory, pi, ni, li, atBilling, burned>>

\* mutant of Snapshot: the business record is not appended
Snapshot_pop_only ==
  /\ pc = "snapshot"
  /\ pophistory' = Append(pophistory, popreport)
  /\ pc' = "idle"
  /\ log' = Append(log, [ph |-> "snapshot", who |-> 0])
  /\ UNCHANGED <<placevars, lifevars, world, border, people, business_locations, needs, available, businesses,
                 failed_businesses, bizhistory, age, pi, ni, li, bi, atBilling, burned>>

\* self.pophistory.append(self.popreport()); self.bizhistory.append(self.bizreport())
Snapshot ==
  /\ pc = "snapshot"
  /\ pophistory' = Append(pophistory, popreport)
  /\ bizhistory' = Append(bizhistory, bizreport)
  /\ pc' = "idle"
  /\ log' = Append(log, [ph |-> "snapshot", who |-> 0])
  /\ UNCHANGED <<placevars, lifevars, world, border, people, business_locations, needs, available, businesses, failed_businesses,
                 age, pi, ni, li, bi, atBilling, burned>>

Next ==
  \/ CityCycle
  \/ Generate
  \/ GenerateDone
  \/ StartupOccupied
  \/ StartupKeyError
  \/ StartupScan
  \/ StartupDone
  \/ Fulfill
  \/ FulfillDone
  \/ Burn
  \/ BurnDone
  \/ Snapshot

Spec == Init /\ [][Next]_vars

(***************************************************************************)
(* City.life: for i in xrange(ncycles): self.city_cycle()                  *)
(***************************************************************************)
LifeCall ==
  /\ pc = "idle"
  /\ ncycles = None
  /\ \E n \in 0..(MaxAge - age) :
       ncycles' = n
  /\ icycle' = 0
  /\ age0' = age
  /\ UNCHANGED <<placevars, log, world, border, people, needs, business_locations, available, businesses,
                 failed_businesses, age, pophistory, bizhistory, pc, pi, ni, li, bi,
                 atBilling, burned>>

\* one more iteration of the loop: city_cycle is entered
LifeCycle ==
  /\ ncycles # None
  /\ icycle < ncycles
  /\ city_cycle_begin
  /\ icycle' = icycle + 1
  /\ UNCHANGED <<ncycles, age0>>

\* mutant of LifeReturn: the loop stops one iteration short
LifeReturn_short ==
  /\ pc = "idle"
  /\ ncycles # None
  /\ icycle >= ncycles - 1
  /\ ncycles' = None
  /\ icycle' = 0
  /\ age0' = 0
  /\ UNCHANGED <<placevars, log, world, border, people, needs, business_locations, available, businesses,
                 failed_businesses, age, pophistory, bizhistory, pc, pi, ni, li, bi,
                 atBilling, burned>>

\* the loop is exhausted and life returns
LifeReturn ==
  /\ pc = "idle"
  /\ ncycles # None
  /\ icycle >= ncycles
  /\ ncycles' = None
  /\ icycle' = 0
  /\ age0' = 0
  /\ UNCHANGED <<placevars, log, world, border, people, needs, business_locations, available, businesses,
                 failed_businesses, age, pophistory, bizhistory, pc, pi, ni, li, bi,
                 atBilling, burned>>

NextLife ==
  \/ LifeCall
  \/ LifeCycle
  \/ LifeReturn
  \/ CityCycle
  \/ Generate
  \/ GenerateDone
  \/ StartupOccupied
  \/ StartupKeyError
  \/ StartupScan
  \/ StartupDone
  \/ Fulfill
  \/ FulfillDone
  \/ Burn
  \/ BurnDone
  \/ Snapshot

SpecLife == Init /\ [][NextLife]_vars

(***************************************************************************)
(* City.__init__ step by step: populate, Person.__init__ and the rejection *)
(* loop of pop_density_rand.                                               *)
(***************************************************************************)
\* the sizes City is constructed with here
PlaceSizes == {Rat(-1, 1), Rat(0, 1), Rat(1, 1), Rat(6, 5)}
PlaceWorlds == {[Duo EXCEPT !.size = s] : s \in PlaceSizes}

\* (norm(scale = size).rvs(), norm(scale = size).rvs()): any point of the plane
\* when size > 0, here two points near the origin and two further out; exactly
\* (0.0, 0.0) when size = 0
rvs(size) ==
  IF size.num = 0 THEN {<<0, 0>>} ELSE {<<0, 0>>, <<1, 0>>, <<2, 0>>, <<0, -2>>}

\* the state in City.__init__ just before self.populate(n_people)
InitPlace ==
  /\ world \in PlaceWorlds
  /\ border \in Perms(DOMAIN world.btypes)
  /\ age = 0
  /\ n_people \in 0..MaxPeople
  /\ people = <<>>
  /\ needs = <<>>
  /\ business_locations = <<>>
  /\ available = <<>>
  /\ businesses = <<>>
  /\ failed_businesses = <<>>
  /\ pophistory = <<>>
  /\ bizhistory = <<>>
  /\ pc = "populate"
  /\ pi = 0 /\ ni = 0 /\ li = 0 /\ bi = 0
  /\ atBilling = <<>>
  /\ burned = <<>>
  /\ ncycles = None
  /\ icycle = 0
  /\ age0 = 0
  /\ log = <<>>
  /\ rand_loc = None
  /\ tries = 0

\* Person.__init__ calls city.pop_density_rand(): loc = (self.size + 1, 0).
\* The abscissa is kept as the integer int(size) + 1; like size + 1 it is
\* further than size from the origin, so the loop is always entered.
PlaceBegin ==
  /\ pc = "populate"
  /\ Len(people) < n_people
  /\ rand_loc' = <<isize(world.size) + 1, 0>>
  /\ tries' = 0
  /\ pc' = "place"
  /\ UNCHANGED <<lifevars, log, n_people, world, border, people, needs, business_locations, available,
                 businesses, failed_businesses, age, pophistory, bizhistory, pi, ni, li, bi, atBilling, burned>>

\* while f.distance(loc, (0, 0)) > self.size: loc = (rvs, rvs)
Resample ==
  /\ pc = "place"
  /\ distance_gt(rand_loc, <<0, 0>>, world.size)
  /\ world.size.num >= 0
  /\ tries < MaxTries
  /\ rand_loc' \in rvs(world.size)
  /\ tries' = tries + 1
  /\ UNCHANGED <<lifevars, log, n_people, world, border, people, needs, business_locations, available,
                 businesses, failed_businesses, age, pophistory, bizhistory, pc, pi, ni, li, bi, atBilling,
                 burned>>

\* norm(scale = size).rvs() with a negative scale: scipy raises ValueError
ResampleValueError ==
  /\ pc = "place"
  /\ distance_gt(rand_loc, <<0, 0>>, world.size)
  /\ world.size.num < 0
  /\ pc' = "ValueError"
  /\ UNCHANGED <<lifevars, log, placevars, world, border, people, needs, business_locations, available,
                 businesses, failed_businesses, age, pophistory, bizhistory, pi, ni, li, bi, atBilling, burned>>

\* the loop test fails: return loc; the person gets its needs and is appended
PlaceReturn ==
  /\ pc = "place"
  /\ pop_density_rand(rand_loc, world.size)
  /\ people' = Append(people, rand_loc)
  /\ needs' = Append(needs, init_needs(world))
  /\ rand_loc' = None
  /\ pc' = "populate"
  /\ UNCHANGED <<lifevars, log, n_people, tries, world, border, business_locations, available,
                 businesses, failed_businesses, age, pophistory, bizhistory, pi, ni, li, bi, atBilling, burned>>

\* populate has returned: the rest of City.__init__
Constructed ==
  /\ pc = "populate"
  /\ Len(people) = n_people
  /\ business_locations' = generate_business_locations(world.size)
  /\ LET bl == generate_business_locations(world.size)
         nl == Len(bl)
     IN  \E fill \in Samples(nl, (nl * 3) \div 4) :
         \E kind \in [DOMAIN fill -> DOMAIN world.btypes] :
           /\ businesses' = business_populate(world, bl, fill, kind)
           /\ available' = [j \in 1..nl |-> j \notin Range(fill)]
  /\ failed_businesses' = <<>>
  /\ UNCHANGED <<lifevars, log, placevars, world, border, people, needs, age, pi, ni, li, bi, atBilling, burned>>
  /\ pophistory' = <<popreport'>>
  /\ bizhistory' = <<bizreport'>>
  /\ pc' = "idle"

NextPlace ==
  \/ PlaceBegin
  \/ Resample
  \/ ResampleValueError
  \/ PlaceReturn
  \/ Constructed

SpecPlace == InitPlace /\ [][NextPlace]_vars

TypeOK ==
  /\ pc \in {"idle", "generate", "startup", "fulfill", "burn", "snapshot", "KeyError",
              "populate", "place", "ValueError"}
  /\ tries \in 0..MaxTries
  /\ age \in 0..MaxAge

(***************************************************************************)
(* Properties                                                              *)
(***************************************************************************)
Active == Range(businesses)
Failed == Range(failed_businesses)
Recorded == Active \cup Failed
CycleOver == pc \in {"snapshot", "idle"}

\* C1: every business that is in City.businesses when the billing loop is
\* entered has its type's burn rate deducted exactly once in that cycle: when
\* the loop is over, its cash is its cash at the start of the phase minus the
\* burn rate, whatever other businesses died in the phase.
C1_EveryActiveBusinessBilledOnce ==
  (CycleOver /\ age > 0) =>
    \A k \in DOMAIN atBilling :
      LET b == atBilling[k]
      IN  /\ \E x \in Recorded :
               x.id = b.id /\ x.cash = b.cash - world.btypes[b.type].burnrate
          /\ Cardinality({e \in DOMAIN burned : burned[e][1] = b.id}) = 1

\* C2: a business whose cash is negative after Business.burn in cycle k is,
\* from then to the end of that city_cycle call, absent from City.businesses
\* and present in City.failed_businesses with deathday = City.age of cycle k
\* and lifespan = City.age - birthday.
C2_NegativeAfterBurnDiesThatCycle ==
  \A e \in DOMAIN burned :
    burned[e][2] < 0 =>
      /\ \A x \in Active : x.id # burned[e][1]
      /\ \E x \in Failed :
           /\ x.id = burned[e][1]
           /\ x.cash = burned[e][2]
           /\ x.deathday = age
           /\ x.lifespan = age - x.birthday

\* Scenario B: a business with cash 0.5 and burn rate 1 was burned to -0.5 and
\* the cycle is over.
C2_Witness ==
  /\ pc = "idle"
  /\ \E e \in DOMAIN burned :
       /\ burned[e][2] = -1
       /\ \E b \in Range(atBilling) :
            b.id = burned[e][1] /\ b.cash = 1 /\ world.btypes[b.type].burnrate = 2

\* C3: after construction and after any number of cycles, no two businesses
\* in City.businesses occupy the same BusinessLocation, and every active
\* business stands on one of the locations generated at construction.
C3_OneBusinessPerGeneratedLocation ==
  /\ \A h, k \in DOMAIN businesses :
       h # k => /\ businesses[h].blocation # businesses[k].blocation
                /\ businesses[h].location # businesses[k].location
  /\ \A k \in DOMAIN businesses :
       /\ businesses[k].blocation \in DOMAIN business_locations
       /\ businesses[k].location = business_locations[businesses[k].blocation]
  /\ business_locations = generate_business_locations(world.size)

\* A location freed by a death has been taken again, beside another business.
C3_Witness ==
  /\ pc = "idle"
  /\ Len(businesses) >= 2
  /\ \E x \in Failed : \E y \in Active : x.blocation = y.blocation

\* C4: at the end of every city_cycle call, and after construction, every
\* business in City.businesses has cash >= 0 (initial cash and unit prices
\* being non-negative); in the model a burn and the death it triggers are one
\* step, so this holds between any two steps.
C4_ActiveCashNonNegative ==
  \A x \in Active : x.cash >= 0

\* A cycle has ended in which one business died and another was billed and lives.
C4_Witness ==
  /\ pc = "idle"
  /\ \E x \in Failed : x.deathday = age
  /\ \E e \in DOMAIN burned : \E y \in Active : y.id = burned[e][1]

\* C5: a business is created by city_cycle only in the startup phase, at the
\* location being scanned, only if that location was vacant and some business
\* type scores >= 1 there, and the type started has the maximum score over
\* all types at that location.
C5_StartupOnlyAtVacantWithBestScore ==
  [][\A k \in DOMAIN businesses' :
       (\A h \in DOMAIN businesses : businesses[h].id # businesses'[k].id) =>
         LET b == businesses'[k]
         IN  /\ pc = "startup"
             /\ b.blocation = li
             /\ available[li]
             /\ \A x \in Active : x.blocation # li
             /\ \E t \in DOMAIN world.btypes :
                  RatGeq(startup_score(t, li), Rat(1, 1))
             /\ \A t \in DOMAIN world.btypes :
                  RatGeq(startup_score(b.type, li), startup_score(t, li))]_vars

\* The scan has just started a business where two types competed with
\* different scores.
C5_Witness ==
  /\ pc = "startup"
  /\ li > 1
  /\ \E x \in Active :
       /\ x.birthday = age
       /\ x.blocation = li - 1
       /\ \E t \in DOMAIN world.btypes :
            RatLess(startup_score(t, li - 1), startup_score(x.type, li - 1))

\* C6: when two or more types have the same maximal score >= 1 at a vacant
\* location, the type started does not depend on the order in which the
\* registry is enumerated: every enumeration order picks the same type.
C6_TieBreakIndependentOfOrder ==
  (/\ pc = "startup"
   /\ li <= Len(business_locations)
   /\ vacant(li)
   /\ ~\E t \in Range(border) : raises_KeyError(t, li)
   /\ triggers(best_startup(border, li).best)) =>
    \A order \in Perms(DOMAIN world.btypes) :
      best_startup(order, li).best_type = best_startup(border, li).best_type

\* C7: when Person.fulfill satisfies a need at a business, that business's
\* cash grows by exactly the person's accumulated unmet need for that type
\* and the need is reset to 0, so the cash gained equals the need cleared.
C7_PaymentEqualsNeedCleared ==
  [][(pc = "fulfill" /\ pi <= Len(people)) =>
       LET n == world.dnames[ni]
       IN  /\ \A k \in DOMAIN businesses :
                businesses'[k].cash # businesses[k].cash =>
                  /\ businesses'[k].cash - businesses[k].cash = 2 * needs[pi][n]
                  /\ needs'[pi][n] = 0
           /\ SumSeq([k \in DOMAIN businesses |-> businesses'[k].cash - businesses[k].cash])
                = 2 * (needs[pi][n] - needs'[pi][n])]_vars

\* C8: a person's unmet need is never negative, it is exactly 0 right after a
\* fulfillment event for that type (a step of the fulfillment phase that pays
\* a business for it), and in every other step it does not decrease.
C8_NeedsNonNegativeResetOrGrow ==
  [][\A i \in DOMAIN needs : \A n \in DOMAIN needs[i] :
       /\ needs[i][n] >= 0
       /\ needs'[i][n] >= 0
       /\ IF /\ pc = "fulfill" /\ pi = i /\ world.dnames[ni] = n
             /\ \E k \in DOMAIN businesses : businesses'[k].cash # businesses[k].cash
          THEN needs'[i][n] = 0
          ELSE needs'[i][n] >= needs[i][n]]_vars

\* A person has paid a business started in this cycle and has no need left,
\* while a need of somebody was carried over.
C8_Witness ==
  /\ pc = "burn"
  /\ \E i \in DOMAIN needs : \E n \in DOMAIN needs[i] : needs[i][n] = 0
  /\ \E i \in DOMAIN needs : \E n \in DOMAIN needs[i] : needs[i][n] > 0
  /\ \E x \in Active :
       x.birthday = age /\ x.cash > world.btypes[x.type].initial_cash

\* C9: one step of Person.fulfill, for one person and one demand type, either
\* finds no active business at distance strictly less than the demand radius
\* and changes no need and no cash, or changes the cash of at most one
\* business, which is strictly inside the radius, and that person's need for
\* that type; it never changes another person's needs, another need, another
\* business, the active or failed collections' membership, or the occupancy.
C9_FulfillFrame ==
  [][(pc = "fulfill" /\ pi <= Len(people)) =>
       LET n == world.dnames[ni]
           r == demand_radius(world.dtypes[n], needs[pi][n])
           cands == {k \in DOMAIN businesses :
                       distance_lt(businesses[k].location, people[pi], r)}
           changed == {k \in DOMAIN businesses : businesses'[k] # businesses[k]}
       IN  /\ DOMAIN businesses' = DOMAIN businesses
           /\ \A k \in DOMAIN businesses :
                businesses'[k] = [businesses[k] EXCEPT !.cash = businesses'[k].cash]
           /\ failed_businesses' = failed_businesses
           /\ available' = available
           /\ business_locations' = business_locations
           /\ people' = people
           /\ \A i \in DOMAIN needs : \A m \in DOMAIN needs[i] :
                (i # pi \/ m # n) => needs'[i][m] = needs[i][m]
           /\ cands = {} => (needs' = needs /\ businesses' = businesses)
           /\ cands # {} =>
                /\ changed \subseteq cands
                /\ Cardinality(changed) <= 1
                /\ needs[pi][n] > 0 => Cardinality(changed) = 1
                /\ needs'[pi][n] = 0]_vars

\* Of two people, the first has paid the one business and the second, whose
\* radius does not reach it, keeps the need it had.
C9_Witness ==
  /\ pc = "fulfill"
  /\ Len(people) = 2
  /\ pi = 3
  /\ needs[1]["food"] = 0
  /\ needs[2]["food"] > 0
  /\ \E x \in Active : x.cash > world.btypes[x.type].initial_cash

\* C10 (Scenario A): radius 1, food (lambda 1, price 1), diner (10, 2, 2, 1),
\* one person at the origin, no business; when the first draw is 3 the need
\* after generation is 3, the cycle does not abort on a type-name lookup, and
\* a diner stands at (0,0) once the startup phase of that cycle is over.
C10_ScenarioA_DinerStarts ==
  (/\ world = ScenarioA
   /\ age = 1
   /\ pc # "generate"
   /\ needs[1]["food"] = 3) =>
    /\ pc # "KeyError"
    /\ pc # "startup" =>
         \E x \in Active :
           x.type = "diner" /\ x.location = <<0, 0>> /\ x.birthday = 1

\* C11: DemandType.demand_radius is exactly 1 at need 0 and strictly
\* increasing in need: for all amounts a < b that Person.generate can
\* accumulate (arrival counts times the unit price) and every configured
\* demand type, demand_radius(a) < demand_radius(b).
C11_DemandRadiusStrictlyIncreasing ==
  \A n \in DOMAIN world.dtypes :
    LET dt == world.dtypes[n]
        amounts == {k * dt.dprice : k \in 0..MaxNeed}
    IN  /\ RatGeq(demand_radius(dt, 0), Rat(1, 1))
        /\ RatGeq(Rat(1, 1), demand_radius(dt, 0))
        /\ \A a, b \in amounts :
             a < b => RatLess(demand_radius(dt, a), demand_radius(dt, b))

\* C12: City.age is 0 after construction, grows by exactly 1 on every entry
\* of city_cycle and never otherwise; while a City.life(n) call runs, age is
\* the age at the call plus the number of city_cycle calls it has made, at
\* most n, and when life returns it has made n of them: age = age before + n.
C12_AgeCountsCycles ==
  /\ age = 0
  /\ [][/\ age' = age \/ (age' = age + 1 /\ pc = "idle" /\ pc' = "generate")
        /\ (pc = "idle" /\ pc' = "generate") => age' = age + 1
        /\ ncycles # None => (age = age0 + icycle /\ icycle <= ncycles)
        /\ ncycles' # None => (age' = age0' + icycle' /\ icycle' <= ncycles')
        /\ (ncycles # None /\ ncycles' = None) =>
             (icycle = ncycles /\ age = age0 + ncycles)]_vars

\* A call life(2) made right after construction has run its two cycles.
C12_Witness ==
  /\ pc = "idle"
  /\ ncycles = 2
  /\ icycle = 2
  /\ age0 = 0
  /\ age = 2

Rank(ph) ==
  CASE ph = "generate" -> 1
    [] ph = "score" -> 2
    [] ph = "fulfill" -> 3
    [] ph = "burn" -> 4
    [] ph = "snapshot" -> 5
Times(ph, who) == Cardinality({e \in DOMAIN log : log[e] = [ph |-> ph, who |-> who]})
Begun(phases) == \E e \in DOMAIN log : log[e].ph \in phases

\* C13: within each city_cycle the phases run in the order demand
\* generation, startup evaluation, fulfillment, billing, snapshot, with a
\* barrier between them: when a location is scored every person has
\* generated (once), when a person fulfills every location has been scored or
\* was occupied when the scan passed it, when a business burns every person
\* has fulfilled every need type, and the snapshot comes last, after which
\* nothing burns or dies in that cycle.
C13_PhasesInOrderWithBarriers ==
  /\ \A e, f \in DOMAIN log : e < f => Rank(log[e].ph) <= Rank(log[f].ph)
  /\ Begun({"score", "fulfill", "burn", "snapshot"}) =>
       \A i \in DOMAIN people : Times("generate", i) = 1
  /\ Begun({"fulfill", "burn", "snapshot"}) =>
       \A j \in DOMAIN business_locations :
         \/ Times("score", j) = 1
         \/ /\ Times("score", j) = 0
            /\ \E x \in Recorded :
                 x.blocation = j /\ x.birthday < age /\ x.deathday \in {None, age}
  /\ Begun({"burn", "snapshot"}) =>
       \A i \in DOMAIN people : Times("fulfill", i) = Len(world.dnames)
  /\ Begun({"snapshot"}) =>
       /\ Times("snapshot", 0) = 1
       /\ pc = "idle"
       /\ pophistory[Len(pophistory)] = popreport
       /\ bizhistory[Len(bizhistory)] = bizreport

\* A cycle of a city of two people went through all five phases.
C13_Witness ==
  /\ pc = "idle"
  /\ Len(people) = 2
  /\ \A ph \in {"generate", "score", "fulfill", "burn", "snapshot"} : Begun({ph})

DeadApart(bs, fs) ==
  /\ \A x \in Range(bs) : \A y \in Range(fs) : x.id # y.id
  /\ \A x \in Range(bs) : x.deathday = None /\ x.lifespan = None
  /\ \A y \in Range(fs) :
       y.deathday # None /\ y.deathday >= y.birthday /\ y.lifespan = y.deathday - y.birthday

\* C14: death is terminal.  The active and the failed collection are
\* disjoint, a business is in the failed one if and only if its deathday is
\* set, and then lifespan = deathday - birthday; once a business is in
\* failed_businesses its record (cash, deathday, lifespan) never changes and it
\* never appears in City.businesses again.
C14_DeathIsTerminal ==
  [][/\ DeadApart(businesses, failed_businesses)
     /\ DeadApart(businesses', failed_businesses')
     /\ Len(failed_businesses') >= Len(failed_businesses)
     /\ \A k \in DOMAIN failed_businesses :
          failed_businesses'[k] = failed_businesses[k]]_vars

\* A business that died in an earlier cycle is still on record while a
\* later business is active.
C14_Witness ==
  /\ \E y \in Failed : y.deathday < age /\ y.cash < 0
  /\ \E x \in Active : x.birthday = age

\* C15: placing a person at construction terminates.  A city whose radius is
\* not positive is never constructed and construction fails with no other
\* error than a GeometryError; the rejection loop of pop_density_rand does
\* not go on after MaxTries rejected draws.
C15_PlacementBoundedOrGeometryError ==
  /\ pc = "idle" => world.size.num > 0
  /\ pc # "ValueError"
  /\ (pc = "place" /\ tries >= MaxTries) => pop_density_rand(rand_loc, world.size)

RECURSIVE Weighted(_, _)
\* the sum over the values v of S of v times the number of holders of v
Weighted(S, holders) ==
  IF S = {} THEN 0
  ELSE LET v == CHOOSE x \in S : TRUE
       IN  v * Cardinality(holders[v]) + Weighted(S \ {v}, holders)

\* what a population record must hold for the people and needs given
PopExpected(ppl, nds, rec) ==
  /\ DOMAIN rec = DOMAIN world.dtypes
  /\ \A d \in DOMAIN rec :
       LET unmet == {i \in DOMAIN ppl : nds[i][d] > 0}
           vals == {nds[i][d] : i \in unmet}
           held == [v \in vals |-> {i \in unmet : nds[i][d] = v}]
       IN  /\ rec[d].demand_count = Cardinality(unmet)
           /\ rec[d].total_demand = Weighted(vals, held)

\* what a business record must hold for the active businesses given
BizExpected(bs, rec) ==
  /\ DOMAIN rec = DOMAIN world.btypes
  /\ \A t \in DOMAIN rec :
       LET mine == {k \in DOMAIN bs : bs[k].type = t}
           vals == {bs[k].cash : k \in mine}
           held == [c \in vals |-> {k \in mine : bs[k].cash = c}]
       IN  /\ rec[t].count = Cardinality(mine)
           /\ rec[t].totalcash = Weighted(vals, held)
  /\ LET counts == {rec[t].count : t \in DOMAIN rec}
     IN  Weighted(counts, [c \in counts |-> {t \in DOMAIN rec : rec[t].count = c}]) = Len(bs)

\* C16: popreport and bizreport are read-only and idempotent.  The step that
\* calls them changes no person, business, location, age or earlier record;
\* the records it returns are, per demand type, the number of people with
\* positive need and the sum of those needs and, per business type, the number
\* of active businesses and the sum of their cash, the counts adding up to the
\* size of City.businesses; calling them again in the state they leave
\* returns the same records.
C16_ReportsReadOnlyAndExact ==
  /\ PopExpected(people, needs, pophistory[1]) /\ BizExpected(businesses, bizhistory[1])
  /\ [][pc = "snapshot" =>
          /\ UNCHANGED <<people, needs, businesses, failed_businesses, business_locations, available, age>>
          /\ \A k \in DOMAIN pophistory : pophistory'[k] = pophistory[k]
          /\ \A k \in DOMAIN bizhistory : bizhistory'[k] = bizhistory[k]
          /\ PopExpected(people, needs, pophistory'[Len(pophistory')])
          /\ BizExpected(businesses, bizhistory'[Len(bizhistory')])
          /\ pophistory'[Len(pophistory')] = popreport'
          /\ bizhistory'[Len(bizhistory')] = bizreport']_vars

\* A report has been taken of a city with a person in need, a person without,
\* and an active business.
C16_Witness ==
  /\ pc = "idle" /\ age > 0
  /\ \E d \in DOMAIN world.dtypes :
       /\ pophistory[age + 1][d].demand_count = 1
       /\ pophistory[age + 1][d].total_demand >= 1
       /\ \E i \in DOMAIN people : needs[i][d] = 0
  /\ \E t \in DOMAIN world.btypes :
       bizhistory[age + 1][t].count = 1 /\ bizhistory[age + 1][t].totalcash >= 0

\* C17: the two histories are append-only and in step with the clock.  After
\* construction and after every completed city_cycle call each holds exactly
\* City.age + 1 records; a cycle appends exactly one record to each, at its
\* end; a record already in a history is never changed.
C17_HistoriesAppendOnlyInStep ==
  /\ Len(pophistory) = 1 /\ Len(bizhistory) = 1 /\ age = 0
  /\ [][/\ \A k \in DOMAIN pophistory : k \in DOMAIN pophistory' /\ pophistory'[k] = pophistory[k]
        /\ \A k \in DOMAIN bizhistory : k \in DOMAIN bizhistory' /\ bizhistory'[k] = bizhistory[k]
        /\ pc' = "idle" => Len(pophistory') = age' + 1 /\ Len(bizhistory') = age' + 1
        /\ pc' # "idle" => Len(pophistory') = age' /\ Len(bizhistory') = age']_vars

\* Two cycles have completed and their records differ.
C17_Witness ==
  /\ pc = "idle" /\ age = 2
  /\ Len(pophistory) = 3 /\ Len(bizhistory) = 3
  /\ pophistory[2] # pophistory[3]
  /\ bizhistory[1] # bizhistory[2]

Ids(bs) == [k \in DOMAIN bs |-> bs[k].id]

\* C18: during the billing phase the active collection is not structurally
\* changed while it is scanned.  A Business.burn call of the scan leaves the
\* members of City.businesses, City.failed_businesses and every location's
\* available flag as they were; deaths are applied when the scan is over.
C18_DeathsBufferedDuringBilling ==
  [][(pc = "burn" /\ pc' = "burn") =>
       /\ Ids(businesses') = Ids(businesses)
       /\ failed_businesses' = failed_businesses
       /\ available' = available]_vars

BornAt(j) == {k \in DOMAIN businesses : businesses[k].blocation = j /\ businesses[k].birthday = age}
HeldBefore(j) == {k \in DOMAIN businesses : businesses[k].blocation = j /\ businesses[k].birthday < age}
Wins(j) ==
  /\ ~\E t \in Range(border) : raises_KeyError(t, j)
  /\ triggers(best_startup(border, j).best)

Occupants(j) == {k \in DOMAIN businesses : businesses[k].blocation = j}

\* C20: a location's available flag is False if and only if exactly one
\* business of City.businesses has it as its blocation (and no location has
\* two); a location freed by a death in cycle k is vacant to the end of
\* cycle k, and a business active at a location where another has died is a
\* different business, born in a later cycle than that death.
C20_AvailableIffUnoccupied ==
  /\ DOMAIN available = DOMAIN business_locations
  /\ \A j \in DOMAIN business_locations :
       /\ Cardinality(Occupants(j)) <= 1
       /\ ~available[j] <=> Cardinality(Occupants(j)) = 1
  /\ \A y \in Failed :
       /\ y.deathday = age => available[y.blocation]
       /\ \A x \in Active :
            x.blocation = y.blocation => x.id # y.id /\ x.birthday > y.deathday

\* A location freed by a death in one cycle is held by a new business started
\* in the next, while another freed location stays vacant.
C20_Witness ==
  /\ \E y \in Failed : \E x \in Active :
       x.blocation = y.blocation /\ x.birthday = y.deathday + 1 /\ ~available[x.blocation]
  /\ \E y \in Failed : available[y.blocation]

====
